---- MODULE Spec2Model ----
(***************************************************************************)
(* Model of the wedding gallery server: the MemStorage media registry and  *)
(* its blob directory (src/server/storage.ts, lines 1-123) and the HTTP    *)
(* routes registered over it (src/server/storage.ts, lines 188-377 and the *)
(* mirroring variant, lines 437-627).                                      *)
(*                                                                         *)
(* File names are sequences of path components (the string split on "/"),  *)
(* a component being a base name with the list of "<n>_" prefixes in front *)
(* of it, so that `${id}_${fileName}` and path.join are computed as the    *)
(* code computes them.  Paths are component sequences relative to          *)
(* mediaDir.                                                               *)
(***************************************************************************)
EXTENDS Integers, Sequences, FiniteSets, TLC

VARIABLES
  media,           \* MemStorage.media, the values in Map (insertion) order
  mediaCurrentId,  \* MemStorage.mediaCurrentId
  disk,            \* the files that exist, path |-> bytes
  inflight,        \* mirroring upload requests suspended at the mirror await
  resp,            \* outcome of the last call or request
  assigned,        \* ids taken by createMedia so far, in call order
  returned,        \* records returned by createMedia so far, in call order
  written,         \* the fileData of each record in returned, same order
  deletedIds,      \* ids for which deleteMedia returned true
  users,           \* MemStorage.users, the values in Map (insertion) order
  userCurrentId,   \* MemStorage.userCurrentId
  uploadSection,   \* the UploadSection component: its state, timers and fetch
  cameraCapture    \* the CameraCapture component: its state, refs and streams

vars == <<media, mediaCurrentId, disk, inflight, resp, assigned, returned,
          written, deletedIds, users, userCurrentId, uploadSection,
          cameraCapture>>

(* ------------------------------ bounds --------------------------------- *)

\* cap on the number of handleUpload calls that send a request in one run
MaxAttempts == 2

\* cap on the number of getUserMedia calls in one run
MaxStreams == 2

\* cap on the number of ids createUser hands out in one run
MaxUsers == 3

\* cap on the number of ids createMedia hands out in one run
MaxId == 2

(* --------------------------- path components --------------------------- *)

Comp(pre, base) == [pre |-> pre, base |-> base]

\* the ".." component
Up == Comp(<<>>, "..")

\* file names used as inputs: "a", "b", "x/../1_a", "d/a", "x/../../a"
NameA == <<Comp(<<>>, "a")>>
NameB == <<Comp(<<>>, "b")>>
NameTrav == <<Comp(<<>>, "x"), Up, Comp(<<1>>, "a")>>
NameSub == <<Comp(<<>>, "d"), Comp(<<>>, "a")>>
NameEsc == <<Comp(<<>>, "x"), Up, Up, Comp(<<>>, "a")>>

\* `${id}_${fileName}`: the id and an underscore in front of the first component
storageKey(id, fileName) ==
  <<Comp(<<id>> \o Head(fileName).pre, Head(fileName).base)>> \o Tail(fileName)

\* path.normalize on the part below mediaDir: "." and empty components are
\* dropped, ".." removes the component before it or, with none left, climbs
\* above mediaDir
RECURSIVE normalize(_, _)
normalize(done, rest) ==
  IF rest = <<>> THEN done
  ELSE LET c == Head(rest) IN
       IF c = Comp(<<>>, ".") \/ c = Comp(<<>>, "")
         THEN normalize(done, Tail(rest))
       ELSE IF c = Up /\ done # <<>> /\ done[Len(done)] # Up
         THEN normalize(SubSeq(done, 1, Len(done) - 1), Tail(rest))
       ELSE normalize(Append(done, c), Tail(rest))

\* path.join(mediaDir, `${id}_${media.fileName}`)
filePath(id, fileName) == normalize(<<>>, storageKey(id, fileName))

\* mediaDir and the directories above it are the only directories: the program
\* creates mediaDir at load time and no other directory
IsDirectory(p) == \A i \in 1..Len(p) : p[i] = Up

ParentExists(p) == p # <<>> /\ IsDirectory(SubSeq(p, 1, Len(p) - 1))

\* fs.existsSync on disk contents d
existsSync(d, p) == p \in DOMAIN d \/ IsDirectory(p)

(* ------------------------------ registry ------------------------------- *)

\* this.media is a Map, kept as the sequence of its values in insertion order
idsOf(m) == {m[i].id : i \in 1..Len(m)}

\* Map.get for a key that is present
recOf(m, id) == CHOOSE r \in {m[i] : i \in 1..Len(m)} : r.id = id

\* Map.set that puts the entry first
mediaSetFront(m, rec) == <<rec>> \o SelectSeq(m, LAMBDA r : r.id # rec.id)

\* Map.set: a new key is appended, an existing key keeps its place
mediaSet(m, rec) ==
  IF rec.id \in idsOf(m)
    THEN [i \in 1..Len(m) |-> IF m[i].id = rec.id THEN rec ELSE m[i]]
    ELSE Append(m, rec)

\* Map.delete
mediaDelete(m, id) == SelectSeq(m, LAMBDA r : r.id # id)

\* the MemStorage object and the directory it writes to
store == [media |-> media, mediaCurrentId |-> mediaCurrentId, disk |-> disk]

(* ------------------------------ inputs --------------------------------- *)

\* file contents
DataInputs == {<<1>>, <<2, 3>>}

\* a MIME type "major/minor"
Mime(major, minor) == [major |-> major, minor |-> minor]

ImagePng == Mime("image", "png")
VideoMp4 == Mime("video", "mp4")
TextPlain == Mime("text", "plain")

Insert(name, type) ==
  [fileName |-> name, fileType |-> type, fileSize |-> 1, uploadDate |-> "t0",
   metadata |-> [originalName |-> name, cloudinaryUrl |-> "none"]]

\* InsertMedia values handed to createMedia by a caller of MemStorage
MediaInputs ==
  {Insert(NameA, ImagePng), Insert(NameA, VideoMp4),
   Insert(NameTrav, ImagePng), Insert(NameSub, ImagePng),
   Insert(NameEsc, ImagePng)}

\* what fs.writeFileSync can do at a path: write all the bytes, throw before
\* the file is opened, or throw after the file was truncated and partly written
WriteOutcomes(p) ==
  IF ParentExists(p) /\ ~IsDirectory(p) THEN {"ok", "throw", "partial"} ELSE {"throw"}

\* the bytes a failed write leaves behind
Partial(b) == SubSeq(b, 1, Len(b) - 1)

\* fs.writeFileSync(p, b) on disk contents d under outcome w
writeFileSync(d, p, b, w) ==
  IF w = "ok" THEN (p :> b) @@ d
  ELSE IF w = "partial" THEN (p :> Partial(b)) @@ d
  ELSE d

\* fs.unlinkSync(p) that did not throw
unlinkSync(d, p) == [q \in DOMAIN d \ {p} |-> d[q]]

(* ------------------------------ MemStorage ----------------------------- *)

\* the record createMedia builds: { ...insertMedia, id }
withId(m, id) == [id |-> id] @@ m

\* createMedia that derives the id from the size of the map
createMediaSizeId(st, m, b, w) ==
  LET id == Len(st.media) + 1
      rec == withId(m, id)
      p == filePath(id, m.fileName)
  IN [mediaCurrentId |-> st.mediaCurrentId + 1,
      disk |-> writeFileSync(st.disk, p, b, w),
      media |-> IF w = "ok" THEN mediaSet(st.media, rec) ELSE st.media,
      threw |-> w # "ok",
      id |-> id,
      rec |-> IF w = "ok" THEN <<rec>> ELSE <<>>]

\* createMedia that registers the record before it writes the blob
createMediaRegisterFirst(st, m, b, w) ==
  LET id == st.mediaCurrentId
      rec == withId(m, id)
      p == filePath(id, m.fileName)
  IN [mediaCurrentId |-> st.mediaCurrentId + 1,
      disk |-> writeFileSync(st.disk, p, b, w),
      media |-> mediaSet(st.media, rec),
      threw |-> w # "ok",
      id |-> id,
      rec |-> IF w = "ok" THEN <<rec>> ELSE <<>>]

\* createMedia(insertMedia, fileData) on store st under write outcome w: the
\* id is taken, the blob is written, and only then the record is registered
createMedia(st, m, b, w) ==
  LET id == st.mediaCurrentId
      rec == withId(m, id)
      p == filePath(id, m.fileName)
  IN [mediaCurrentId |-> st.mediaCurrentId + 1,
      disk |-> writeFileSync(st.disk, p, b, w),
      media |-> IF w = "ok" THEN mediaSet(st.media, rec) ELSE st.media,
      threw |-> w # "ok",
      id |-> id,
      rec |-> IF w = "ok" THEN <<rec>> ELSE <<>>]

\* deleteMedia that drops the registry entry before it reports a failed unlink
deleteMediaForgetsOnError(st, id, u) ==
  IF id \notin idsOf(st.media)
    THEN [media |-> st.media, disk |-> st.disk, ret |-> FALSE, threw |-> FALSE]
  ELSE LET p == filePath(id, recOf(st.media, id).fileName) IN
       IF existsSync(st.disk, p) /\ (u = "throw" \/ p \notin DOMAIN st.disk)
         THEN [media |-> mediaDelete(st.media, id), disk |-> st.disk,
               ret |-> FALSE, threw |-> TRUE]
       ELSE [media |-> mediaDelete(st.media, id),
             disk |-> unlinkSync(st.disk, p),
             ret |-> TRUE, threw |-> FALSE]

\* deleteMedia that forgets the record and leaves its blob on disk
deleteMediaKeepBlob(st, id, u) ==
  IF id \notin idsOf(st.media)
    THEN [media |-> st.media, disk |-> st.disk, ret |-> FALSE, threw |-> FALSE]
  ELSE [media |-> mediaDelete(st.media, id), disk |-> st.disk,
        ret |-> TRUE, threw |-> FALSE]

\* deleteMedia that removes the registry entry whatever unlinkSync does
deleteMediaUnconditional(st, id, u) ==
  IF id \notin idsOf(st.media)
    THEN [media |-> st.media, disk |-> st.disk, ret |-> FALSE, threw |-> FALSE]
  ELSE LET p == filePath(id, recOf(st.media, id).fileName)
           t == existsSync(st.disk, p) /\ (u = "throw" \/ p \notin DOMAIN st.disk)
       IN [media |-> mediaDelete(st.media, id),
           disk |-> IF t THEN st.disk ELSE unlinkSync(st.disk, p),
           ret |-> TRUE, threw |-> t]

\* deleteMedia(id) on store st under unlink outcome u; unlinkSync is reached
\* only when existsSync(filePath), and throws under u = "throw" or on a directory
deleteMedia(st, id, u) ==
  IF id \notin idsOf(st.media)
    THEN [media |-> st.media, disk |-> st.disk, ret |-> FALSE, threw |-> FALSE]
  ELSE LET p == filePath(id, recOf(st.media, id).fileName) IN
       IF existsSync(st.disk, p) /\ (u = "throw" \/ p \notin DOMAIN st.disk)
         THEN [media |-> st.media, disk |-> st.disk, ret |-> FALSE, threw |-> TRUE]
       ELSE [media |-> mediaDelete(st.media, id),
             disk |-> unlinkSync(st.disk, p),
             ret |-> TRUE, threw |-> FALSE]

\* getMediaFile that returns an empty buffer for a blob that is not there
getMediaFileEmptyForMissing(st, id, r) ==
  IF id \notin idsOf(st.media) THEN [ret |-> <<>>, threw |-> FALSE]
  ELSE LET rec == recOf(st.media, id)
           p == filePath(id, rec.fileName)
       IN IF ~existsSync(st.disk, p)
            THEN [ret |-> <<[data |-> <<>>, mediaInfo |-> rec]>>, threw |-> FALSE]
          ELSE IF r = "throw" \/ p \notin DOMAIN st.disk
            THEN [ret |-> <<>>, threw |-> TRUE]
          ELSE [ret |-> <<[data |-> st.disk[p], mediaInfo |-> rec]>>,
                threw |-> FALSE]

\* getMediaFile that reads the blob of the oldest record instead of its own
getMediaFileAnyBlob(st, id, r) ==
  IF id \notin idsOf(st.media) THEN [ret |-> <<>>, threw |-> FALSE]
  ELSE LET rec == recOf(st.media, id)
           p == filePath(id, rec.fileName)
       IN IF ~existsSync(st.disk, p) THEN [ret |-> <<>>, threw |-> FALSE]
          ELSE IF r = "throw" \/ p \notin DOMAIN st.disk
            THEN [ret |-> <<>>, threw |-> TRUE]
          ELSE [ret |-> <<[data |-> st.disk[filePath(st.media[1].id, st.media[1].fileName)],
                           mediaInfo |-> rec]>>,
                threw |-> FALSE]

\* getMediaFile(id) on store st under read outcome r: <<>> for undefined, else
\* the pair; readFileSync throws under r = "throw" or on a directory
getMediaFile(st, id, r) ==
  IF id \notin idsOf(st.media) THEN [ret |-> <<>>, threw |-> FALSE]
  ELSE LET rec == recOf(st.media, id)
           p == filePath(id, rec.fileName)
       IN IF ~existsSync(st.disk, p) THEN [ret |-> <<>>, threw |-> FALSE]
          ELSE IF r = "throw" \/ p \notin DOMAIN st.disk
            THEN [ret |-> <<>>, threw |-> TRUE]
          ELSE [ret |-> <<[data |-> st.disk[p], mediaInfo |-> rec]>>,
                threw |-> FALSE]

\* getMediaById(id): <<>> for undefined
getMediaById(st, id) ==
  IF id \in idsOf(st.media) THEN <<recOf(st.media, id)>> ELSE <<>>

\* getAllMedia(): Array.from(this.media.values())
getAllMedia(st) == st.media

(* --------------------------- user registry ---------------------------- *)

\* the InsertUser values createUser is called with
UserInputs ==
  {[username |-> "u", password |-> "p"],
   [username |-> "u", password |-> "q"],
   [username |-> "v", password |-> "p"]}

\* the registry of users with its counter
userStore == [users |-> users, userCurrentId |-> userCurrentId]

\* createUser(insertUser): the id is taken, { ...insertUser, id } is set
\* under it and returned
createUser(ust, insertUser) ==
  LET id == ust.userCurrentId
      user == [id |-> id] @@ insertUser
  IN [users |-> Append(ust.users, user),
      userCurrentId |-> ust.userCurrentId + 1,
      ret |-> user]

\* getUser(id): <<>> for undefined
getUser(ust, id) ==
  IF \E i \in 1..Len(ust.users) : ust.users[i].id = id
    THEN <<ust.users[CHOOSE i \in 1..Len(ust.users) : ust.users[i].id = id]>>
    ELSE <<>>

\* the positions of the users named username
named(ust, username) ==
  {i \in 1..Len(ust.users) : ust.users[i].username = username}

\* getUserByUsername(username): Array.prototype.find returns the first
\* match in insertion order, <<>> for undefined
getUserByUsername(ust, username) ==
  IF named(ust, username) = {} THEN <<>>
  ELSE <<ust.users[CHOOSE i \in named(ust, username) :
                     \A j \in named(ust, username) : i <= j]>>

(* ------------------------------ responses ------------------------------ *)

\* the outcome of the last call or request; status is 0 for a call on
\* MemStorage, and <<>> stands for undefined
NoResp ==
  [kind |-> "none", id |-> 0, threw |-> FALSE, ok |-> FALSE, rec |-> <<>>,
   data |-> <<>>, input |-> <<>>, bytes |-> <<>>, list |-> <<>>,
   status |-> 0, nan |-> FALSE, numeric |-> FALSE, ctype |-> <<>>,
   disposition |-> <<>>, body |-> <<>>, results |-> <<>>, reached |-> FALSE,
   nfiles |-> 0, req |-> <<>>, ws |-> <<>>, mirror |-> <<>>]

(* ----------------------- components, first render ---------------------- *)

\* UploadSection after its first render: the useState initial values, no
\* timer, no request; sent, answer and toast record the FormData of the
\* last handleUpload, what fetch settled with (status 0: not settled, -1:
\* rejected) and the last toast; refreshed: invalidateQueries ran since the
\* last handleUpload; attempts counts the handleUpload calls that sent
UploadSectionInit ==
  [files |-> <<>>, isUploading |-> FALSE, uploadProgress |-> 0,
   interval |-> FALSE, leaked |-> 0, fetch |-> "idle", sent |-> <<>>,
   timeout |-> FALSE, toast |-> "none",
   answer |-> [status |-> 0, results |-> <<>>],
   refreshed |-> FALSE, attempts |-> 0]

\* CameraCapture after its first render: mounted, the useState and useRef
\* initial values (streamRef 0 is null), no getUserMedia call pending, no
\* stream handed out; live holds the streams whose tracks run
CameraCaptureInit ==
  [mounted |-> TRUE, cameraActive |-> FALSE, isVideoMode |-> FALSE,
   streamRef |-> 0, pending |-> 0, obtained |-> 0, live |-> {},
   toast |-> "none"]

(* ------------------------- calls on MemStorage -------------------------- *)

Init ==
  /\ media = <<>>
  /\ mediaCurrentId = 1
  /\ disk = << >>
  /\ inflight = <<>>
  /\ resp = NoResp
  /\ assigned = <<>>
  /\ returned = <<>>
  /\ written = <<>>
  /\ deletedIds = {}
  /\ users = <<>>
  /\ userCurrentId = 1
  /\ uploadSection = UploadSectionInit
  /\ cameraCapture = CameraCaptureInit

\* files of suspended requests that may still take an id
RECURSIVE pendingFiles(_)
pendingFiles(reqs) ==
  IF reqs = <<>> THEN 0 ELSE Len(Head(reqs).files) + pendingFiles(Tail(reqs))

\* n more createMedia calls stay within MaxId
IdsLeft(n) == mediaCurrentId - 1 + pendingFiles(inflight) + n <= MaxId

\* the registries, the disk and the suspended requests stay as they are
UnchangedServer ==
  UNCHANGED <<media, mediaCurrentId, disk, inflight, assigned, returned,
              written, deletedIds, users, userCurrentId>>

\* a call or request that changes nothing on the server; the components in
\* the browser are not touched by the server
Unchanged6 == UnchangedServer /\ UNCHANGED <<uploadSection, cameraCapture>>

CallCreateMedia ==
  /\ IdsLeft(1)
  /\ \E m \in MediaInputs, b \in DataInputs :
       \E w \in WriteOutcomes(filePath(mediaCurrentId, m.fileName)) :
         LET c == createMedia(store, m, b, w) IN
         /\ media' = c.media
         /\ mediaCurrentId' = c.mediaCurrentId
         /\ disk' = c.disk
         /\ assigned' = Append(assigned, c.id)
         /\ returned' = returned \o c.rec
         /\ written' = IF c.threw THEN written ELSE Append(written, b)
         /\ resp' = [NoResp EXCEPT !.kind = "createMedia", !.id = c.id,
                       !.threw = c.threw, !.ok = ~c.threw, !.rec = c.rec,
                       !.input = <<m>>, !.bytes = <<b>>]
         /\ UNCHANGED <<deletedIds, inflight, users, userCurrentId,
                   uploadSection, cameraCapture>>

CallDeleteMedia ==
  \E id \in 0..MaxId, u \in {"ok", "throw"} :
    LET d == deleteMedia(store, id, u) IN
    /\ media' = d.media
    /\ disk' = d.disk
    /\ deletedIds' = IF d.ret THEN deletedIds \cup {id} ELSE deletedIds
    /\ resp' = [NoResp EXCEPT !.kind = "deleteMedia", !.id = id, !.ok = d.ret,
                  !.threw = d.threw]
    /\ UNCHANGED <<mediaCurrentId, assigned, returned, written, inflight,
                   users, userCurrentId,
                   uploadSection, cameraCapture>>

CallGetMediaFile ==
  \E id \in 0..MaxId, r \in {"ok", "throw"} :
    LET g == getMediaFile(store, id, r) IN
    /\ resp' = [NoResp EXCEPT !.kind = "getMediaFile", !.id = id,
                  !.ok = (g.ret # <<>>), !.threw = g.threw,
                  !.rec = IF g.ret = <<>> THEN <<>> ELSE <<g.ret[1].mediaInfo>>,
                  !.data = IF g.ret = <<>> THEN <<>> ELSE <<g.ret[1].data>>]
    /\ Unchanged6

CallGetMediaById ==
  \E id \in 0..MaxId :
    /\ resp' = [NoResp EXCEPT !.kind = "getMediaById", !.id = id,
                  !.ok = (getMediaById(store, id) # <<>>),
                  !.rec = getMediaById(store, id)]
    /\ Unchanged6

CallGetAllMedia ==
  /\ resp' = [NoResp EXCEPT !.kind = "getAllMedia", !.ok = TRUE,
                !.list = getAllMedia(store)]
  /\ Unchanged6

\* a call on the user registry leaves the media registry and the disk alone
UnchangedMedia ==
  UNCHANGED <<media, mediaCurrentId, disk, inflight, assigned, returned,
              written, deletedIds,
              uploadSection, cameraCapture>>

CallCreateUser ==
  /\ userCurrentId <= MaxUsers
  /\ \E insertUser \in UserInputs :
       LET c == createUser(userStore, insertUser) IN
       /\ users' = c.users
       /\ userCurrentId' = c.userCurrentId
       /\ resp' = [NoResp EXCEPT !.kind = "createUser", !.id = c.ret.id,
                     !.ok = TRUE, !.rec = <<c.ret>>, !.input = <<insertUser>>]
       /\ UnchangedMedia

CallGetUser ==
  \E id \in 0..MaxUsers :
    /\ resp' = [NoResp EXCEPT !.kind = "getUser", !.id = id,
                  !.ok = (getUser(userStore, id) # <<>>),
                  !.rec = getUser(userStore, id)]
    /\ Unchanged6

CallGetUserByUsername ==
  \E username \in {"u", "v", "w"} :
    /\ resp' = [NoResp EXCEPT !.kind = "getUserByUsername",
                  !.ok = (getUserByUsername(userStore, username) # <<>>),
                  !.rec = getUserByUsername(userStore, username),
                  !.input = <<username>>]
    /\ Unchanged6

\* the user registry called directly
NextUsers ==
  \/ CallCreateUser
  \/ CallGetUser
  \/ CallGetUserByUsername

SpecUsers == Init /\ [][NextUsers]_vars

NextStorage ==
  \/ CallCreateMedia
  \/ CallDeleteMedia
  \/ CallGetMediaFile
  \/ CallGetMediaById
  \/ CallGetAllMedia

SpecStorage == Init /\ [][NextStorage]_vars

(* ------------------------------ parseInt ------------------------------- *)

DecDigits == {"0", "1", "2", "3", "4", "5", "6", "7", "8", "9"}

HexDigits == DecDigits \cup {"a", "b", "c", "d", "e", "f", "A", "B", "C", "D", "E", "F"}

DigitVal(c) ==
  CASE c = "0" -> 0 [] c = "1" -> 1 [] c = "2" -> 2 [] c = "3" -> 3 [] c = "4" -> 4
    [] c = "5" -> 5 [] c = "6" -> 6 [] c = "7" -> 7 [] c = "8" -> 8 [] c = "9" -> 9
    [] c \in {"a", "A"} -> 10 [] c \in {"b", "B"} -> 11 [] c \in {"c", "C"} -> 12
    [] c \in {"d", "D"} -> 13 [] c \in {"e", "E"} -> 14 [] c \in {"f", "F"} -> 15

\* StrWhiteSpaceChar prefix removed by parseInt
RECURSIVE skipSpace(_)
skipSpace(s) == IF s # <<>> /\ Head(s) = " " THEN skipSpace(Tail(s)) ELSE s

\* value in the radix of the longest prefix of s made of its digits
RECURSIVE digitsValue(_, _, _)
digitsValue(s, radix, acc) ==
  IF s = <<>> \/ Head(s) \notin (IF radix = 16 THEN HexDigits ELSE DecDigits) THEN acc
  ELSE digitsValue(Tail(s), radix, acc * radix + DigitVal(Head(s)))

\* parseInt(string) with no radix: leading white space, a sign, an optional
\* 0x prefix, then as many digits as there are; NaN when there is none
parseInt(s) ==
  LET t == skipSpace(s)
      neg == t # <<>> /\ Head(t) = "-"
      u == IF t # <<>> /\ Head(t) \in {"-", "+"} THEN Tail(t) ELSE t
      hex == Len(u) >= 2 /\ u[1] = "0" /\ u[2] \in {"x", "X"}
      v == IF hex THEN SubSeq(u, 3, Len(u)) ELSE u
      radix == IF hex THEN 16 ELSE 10
  IN IF v = <<>> \/ Head(v) \notin (IF hex THEN HexDigits ELSE DecDigits)
       THEN [nan |-> TRUE, val |-> 0]
       ELSE [nan |-> FALSE,
             val |-> (IF neg THEN -1 ELSE 1) * digitsValue(v, radix, 0)]

\* a numeric string: one or more decimal digits and nothing else
IsNumericString(s) == s # <<>> /\ \A i \in 1..Len(s) : s[i] \in DecDigits

\* the :id path segments requests are made with: "1", "2", "1a", "a", "-1",
\* " 2", "0x1"
SegInputs ==
  {<<"1">>, <<"2">>, <<"1", "a">>, <<"a">>, <<"-", "1">>, <<" ", "2">>,
   <<"0", "x", "1">>}

(* ------------------------------- routes -------------------------------- *)

\* the Content-Type res.json sets
ApplicationJson == Mime("application", "json")

\* the part of a response every :id route fills in; the answer is res.json
\* unless the route sets Content-Type and sends bytes
Http(kind, seg, status) ==
  [NoResp EXCEPT !.kind = kind, !.status = status,
                 !.ctype = <<ApplicationJson>>,
                 !.numeric = IsNumericString(seg),
                 !.nan = parseInt(seg).nan,
                 !.id = parseInt(seg).val,
                 !.reached = TRUE]

\* GET /api/media/:id that answers an unknown id with an empty 200
routeGetEmptyOk(st, seg, r) ==
  LET p == parseInt(seg) IN
  IF p.nan THEN Http("get", seg, 400)
  ELSE LET g == getMediaFile(st, p.val, r) IN
       IF g.ret = <<>>
         THEN [Http("get", seg, 200) EXCEPT !.threw = g.threw]
       ELSE [Http("get", seg, 200) EXCEPT
               !.ctype = <<g.ret[1].mediaInfo.fileType>>,
               !.body = <<g.ret[1].data>>, !.rec = <<g.ret[1].mediaInfo>>,
               !.data = <<g.ret[1].data>>, !.ok = TRUE]

\* GET /api/media/:id
routeGet(st, seg, r) ==
  LET p == parseInt(seg) IN
  IF p.nan THEN Http("get", seg, 400)
  ELSE LET g == getMediaFile(st, p.val, r) IN
       IF g.ret = <<>>
         THEN [Http("get", seg, 404) EXCEPT !.threw = g.threw]
       ELSE [Http("get", seg, 200) EXCEPT
               !.ctype = <<g.ret[1].mediaInfo.fileType>>,
               !.body = <<g.ret[1].data>>, !.rec = <<g.ret[1].mediaInfo>>,
               !.data = <<g.ret[1].data>>, !.ok = TRUE]

\* GET /api/media/:id/download
routeDownload(st, seg, r) ==
  LET p == parseInt(seg) IN
  IF p.nan THEN Http("download", seg, 400)
  ELSE LET g == getMediaFile(st, p.val, r) IN
       IF g.ret = <<>>
         THEN [Http("download", seg, 404) EXCEPT !.threw = g.threw]
       ELSE [Http("download", seg, 200) EXCEPT
               !.ctype = <<g.ret[1].mediaInfo.fileType>>,
               !.disposition = <<g.ret[1].mediaInfo.fileName>>,
               !.body = <<g.ret[1].data>>, !.rec = <<g.ret[1].mediaInfo>>,
               !.data = <<g.ret[1].data>>, !.ok = TRUE]

\* the placeholder SVG: fixed markup around `Video: ${fileName}`
placeholderSvg(fileName) == <<"svg", "Video: ", fileName>>

ImageSvg == Mime("image", "svg+xml")

\* a thumbnail handler that labels every image it serves image/jpeg
routeThumbnailJpeg(st, seg, r) ==
  LET p == parseInt(seg) IN
  IF p.nan THEN Http("thumbnail", seg, 400)
  ELSE LET mediaInfo == getMediaById(st, p.val) IN
       IF mediaInfo = <<>> THEN Http("thumbnail", seg, 404)
       ELSE IF mediaInfo[1].fileType.major = "video"
         THEN [Http("thumbnail", seg, 200) EXCEPT
                 !.ctype = <<ImageSvg>>,
                 !.body = <<placeholderSvg(mediaInfo[1].fileName)>>,
                 !.rec = mediaInfo, !.ok = TRUE]
       ELSE LET g == getMediaFile(st, p.val, r) IN
            IF g.ret = <<>>
              THEN [Http("thumbnail", seg, 404) EXCEPT !.threw = g.threw,
                                                      !.rec = mediaInfo]
            ELSE [Http("thumbnail", seg, 200) EXCEPT
                    !.ctype = <<Mime("image", "jpeg")>>,
                    !.body = <<g.ret[1].data>>, !.rec = mediaInfo,
                    !.data = <<g.ret[1].data>>, !.ok = TRUE]

\* a thumbnail handler that fetches the blob before it looks at the type
routeThumbnailReadsBlob(st, seg, r) ==
  LET p == parseInt(seg) IN
  IF p.nan THEN Http("thumbnail", seg, 400)
  ELSE LET mediaInfo == getMediaById(st, p.val) IN
       IF mediaInfo = <<>> THEN Http("thumbnail", seg, 404)
       ELSE LET g == getMediaFile(st, p.val, r) IN
            IF g.ret = <<>>
              THEN [Http("thumbnail", seg, 404) EXCEPT !.threw = g.threw,
                                                      !.rec = mediaInfo]
            ELSE IF mediaInfo[1].fileType.major = "video"
              THEN [Http("thumbnail", seg, 200) EXCEPT
                      !.ctype = <<ImageSvg>>,
                      !.body = <<placeholderSvg(mediaInfo[1].fileName)>>,
                      !.rec = mediaInfo, !.ok = TRUE]
            ELSE [Http("thumbnail", seg, 200) EXCEPT
                    !.ctype = <<mediaInfo[1].fileType>>,
                    !.body = <<g.ret[1].data>>, !.rec = mediaInfo,
                    !.data = <<g.ret[1].data>>, !.ok = TRUE]

\* GET /api/media/:id/thumbnail
routeThumbnail(st, seg, r) ==
  LET p == parseInt(seg) IN
  IF p.nan THEN Http("thumbnail", seg, 400)
  ELSE LET mediaInfo == getMediaById(st, p.val) IN
       IF mediaInfo = <<>> THEN Http("thumbnail", seg, 404)
       ELSE IF mediaInfo[1].fileType.major = "video"
         THEN [Http("thumbnail", seg, 200) EXCEPT
                 !.ctype = <<ImageSvg>>,
                 !.body = <<placeholderSvg(mediaInfo[1].fileName)>>,
                 !.rec = mediaInfo, !.ok = TRUE]
       ELSE LET g == getMediaFile(st, p.val, r) IN
            IF g.ret = <<>>
              THEN [Http("thumbnail", seg, 404) EXCEPT !.threw = g.threw,
                                                      !.rec = mediaInfo]
            ELSE [Http("thumbnail", seg, 200) EXCEPT
                    !.ctype = <<mediaInfo[1].fileType>>,
                    !.body = <<g.ret[1].data>>, !.rec = mediaInfo,
                    !.data = <<g.ret[1].data>>, !.ok = TRUE]

\* DELETE /api/media/:id: the response and what deleteMedia did
routeDelete(st, seg, u) ==
  LET p == parseInt(seg) IN
  IF p.nan
    THEN [resp |-> Http("delete", seg, 400), media |-> st.media,
          disk |-> st.disk, ret |-> FALSE]
  ELSE LET d == deleteMedia(st, p.val, u) IN
       [resp |-> [Http("delete", seg, IF d.ret THEN 200 ELSE 404) EXCEPT
                    !.threw = d.threw, !.ok = d.ret],
        media |-> d.media, disk |-> d.disk, ret |-> d.ret]

(* ------------------------------- upload -------------------------------- *)

\* busboy hands multer the base name of the part's filename, and "" for "."
\* and ".."
basename(name) ==
  IF name = <<>> THEN <<>>
  ELSE LET c == name[Len(name)] IN
       IF c \in {Up, Comp(<<>>, "."), Comp(<<>>, "")} THEN <<>> ELSE <<c>>

\* a filter that lets every part through
fileFilterAcceptAll(file) == TRUE

\* multer's fileFilter option
fileFilter(file) == file.mimetype.major = "image" \/ file.mimetype.major = "video"

\* a multipart file part as the client sends it
Part(name, type, data, tooLarge) ==
  [filename |-> name, mimetype |-> type, data |-> data, tooLarge |-> tooLarge]

\* the parts multer stores: those with a file name that pass fileFilter
Stored(part) == basename(part.filename) # <<>> /\ fileFilter(part)

\* multer aborts the request with LIMIT_FILE_SIZE when a stored part is
\* longer than limits.fileSize
multerError(parts) == \E i \in 1..Len(parts) : Stored(parts[i]) /\ parts[i].tooLarge

\* req.files as upload.array("media") leaves it
RECURSIVE multerFiles(_)
multerFiles(parts) ==
  IF parts = <<>> THEN <<>>
  ELSE LET p == Head(parts) IN
       IF Stored(p)
         THEN <<[originalname |-> basename(p.filename), mimetype |-> p.mimetype,
                 size |-> Len(p.data), buffer |-> p.data]>> \o multerFiles(Tail(parts))
         ELSE multerFiles(Tail(parts))

PartImg == Part(NameA, ImagePng, <<1>>, FALSE)
PartVid == Part(NameA, VideoMp4, <<2, 3>>, FALSE)
PartTxt == Part(NameB, TextPlain, <<1>>, FALSE)
PartTrav == Part(NameTrav, ImagePng, <<2, 3>>, FALSE)
PartBig == Part(NameB, ImagePng, <<1>>, TRUE)

\* the multipart bodies upload requests are made with
UploadInputs ==
  {<<>>, <<PartTxt>>, <<PartImg>>, <<PartVid>>, <<PartTrav>>,
   <<PartImg, PartVid>>, <<PartTxt, PartVid>>, <<PartImg, PartBig>>}

\* the mediaData object the handler builds for a file
mediaDataOf(file) ==
  [fileName |-> file.originalname, fileType |-> file.mimetype,
   fileSize |-> file.size, uploadDate |-> "t0",
   metadata |-> [originalName |-> file.originalname, cloudinaryUrl |-> "none"]]

\* insertMediaSchema.parse: the notNull columns are present
insertMediaSchemaOk(md) ==
  {"fileName", "fileType", "fileSize", "uploadDate"} \subseteq DOMAIN md

\* fs.writeFileSync outcome w as far as the path allows it
effWrite(p, w) == IF w \in WriteOutcomes(p) THEN w ELSE "throw"

ResultOk(rec, url) ==
  [id |-> rec.id, fileName |-> rec.fileName, status |-> "success", cloudinaryUrl |-> url]

ResultError(file) ==
  [id |-> 0, fileName |-> file.originalname, status |-> "error", cloudinaryUrl |-> "none"]

\* an answer that turns a failed file into a 500
uploadStatusAllOrNothing(results) ==
  IF \E i \in 1..Len(results) : results[i].status = "error" THEN 500 ELSE 201

\* the status of the answer that carries the results array: res.status(201)
uploadStatus(results) == 201

\* a loop turn that pushes a success entry whatever createMedia did
processFileAlwaysSuccess(st, file, md, w) ==
  LET c == createMedia(st, md, file.buffer, effWrite(filePath(st.mediaCurrentId, md.fileName), w))
  IN [st |-> [media |-> c.media, mediaCurrentId |-> c.mediaCurrentId, disk |-> c.disk],
      result |-> ResultOk(withId(md, c.id), md.metadata.cloudinaryUrl),
      ids |-> <<c.id>>,
      recs |-> c.rec,
      bytes |-> IF c.threw THEN <<>> ELSE <<file.buffer>>]

\* one turn of the per-file loop once the mirror (if any) has answered:
\* createMedia under write outcome w and the results entry
processFile(st, file, md, w) ==
  LET c == createMedia(st, md, file.buffer, effWrite(filePath(st.mediaCurrentId, md.fileName), w))
  IN [st |-> [media |-> c.media, mediaCurrentId |-> c.mediaCurrentId, disk |-> c.disk],
      result |-> IF c.threw THEN ResultError(file) ELSE ResultOk(c.rec[1], md.metadata.cloudinaryUrl),
      ids |-> <<c.id>>,
      recs |-> c.rec,
      bytes |-> IF c.threw THEN <<>> ELSE <<file.buffer>>]

\* the per-file loop of POST /api/media/upload over files, file k written
\* under outcome ws[k]
RECURSIVE uploadLoop(_, _, _)
uploadLoop(st, files, ws) ==
  IF files = <<>>
    THEN [st |-> st, results |-> <<>>, ids |-> <<>>, recs |-> <<>>, bytes |-> <<>>]
  ELSE LET file == Head(files)
           md == mediaDataOf(file)
       IN IF ~insertMediaSchemaOk(md)
            THEN LET rest == uploadLoop(st, Tail(files), Tail(ws)) IN
                 [rest EXCEPT !.results = <<ResultError(file)>> \o @]
          ELSE LET one == processFile(st, file, md, Head(ws))
                   rest == uploadLoop(one.st, Tail(files), Tail(ws))
               IN [st |-> rest.st,
                   results |-> <<one.result>> \o rest.results,
                   ids |-> one.ids \o rest.ids,
                   recs |-> one.recs \o rest.recs,
                   bytes |-> one.bytes \o rest.bytes]

\* the buffers of the files of a request, in input order
buffersOf(files) == [i \in 1..Len(files) |-> files[i].buffer]

\* the answer of the upload handler, with the request it answers: the parts
\* sent (req), req.files (input) and their buffers
UploadResp(kind, status, parts, files, results) ==
  [NoResp EXCEPT !.kind = kind, !.status = status, !.reached = TRUE,
                 !.nfiles = Len(files), !.results = results,
                 !.bytes = buffersOf(files), !.input = files, !.req = parts]

\* the error middleware of index.ts answering a multer error
ErrorMiddlewareResp(kind, parts) ==
  [NoResp EXCEPT !.kind = kind, !.status = 500, !.req = parts]

(* ------------------------------ requests ------------------------------- *)

ListMedia ==
  /\ resp' = [NoResp EXCEPT !.kind = "list", !.status = 200, !.reached = TRUE,
                !.ok = TRUE, !.list = getAllMedia(store)]
  /\ Unchanged6

GetMedia ==
  \E seg \in SegInputs, r \in {"ok", "throw"} :
    resp' = routeGet(store, seg, r) /\ Unchanged6

DownloadMedia ==
  \E seg \in SegInputs, r \in {"ok", "throw"} :
    resp' = routeDownload(store, seg, r) /\ Unchanged6

ThumbnailMedia ==
  \E seg \in SegInputs, r \in {"ok", "throw"} :
    resp' = routeThumbnail(store, seg, r) /\ Unchanged6

DeleteMediaRoute ==
  \E seg \in SegInputs, u \in {"ok", "throw"} :
    LET d == routeDelete(store, seg, u) IN
    /\ resp' = d.resp
    /\ media' = d.media
    /\ disk' = d.disk
    /\ deletedIds' = IF d.ret THEN deletedIds \cup {d.resp.id} ELSE deletedIds
    /\ UNCHANGED <<mediaCurrentId, inflight, assigned, returned, written,
                   users, userCurrentId,
                   uploadSection, cameraCapture>>

\* a handler that goes into the loop whatever req.files holds
noFilesUploadedNever(files) == FALSE

\* the handler's first test: req.files is missing or empty
noFilesUploaded(files) == Len(files) = 0

\* POST /api/media/upload, first variant, for a request made of parts: the
\* handler runs to its answer without a suspension that lets another
\* request in
UploadRequest(parts) ==
    LET files == multerFiles(parts) IN
    /\ IdsLeft(Len(files))
    /\ IF multerError(parts)
         THEN /\ resp' = ErrorMiddlewareResp("upload", parts)
              /\ UnchangedServer
       ELSE IF noFilesUploaded(files)
         THEN /\ resp' = UploadResp("upload", 400, parts, files, <<>>)
              /\ UnchangedServer
       ELSE \E ws \in [1..Len(files) -> {"ok", "throw", "partial"}] :
              LET l == uploadLoop(store, files, ws) IN
              /\ media' = l.st.media
              /\ mediaCurrentId' = l.st.mediaCurrentId
              /\ disk' = l.st.disk
              /\ assigned' = assigned \o l.ids
              /\ returned' = returned \o l.recs
              /\ written' = written \o l.bytes
              /\ resp' = [UploadResp("upload", uploadStatus(l.results), parts,
                                     files, l.results) EXCEPT !.ws = ws]
              /\ UNCHANGED <<inflight, deletedIds, users, userCurrentId>>

\* an upload request from any client
UploadMedia ==
  \E parts \in UploadInputs :
    UploadRequest(parts) /\ UNCHANGED <<uploadSection, cameraCapture>>

\* POST /api/media/upload, mirroring variant, up to the first await: multer,
\* the empty check, and the first file handed to the mirror
UploadMirrorStart ==
  \E parts \in UploadInputs :
    LET files == multerFiles(parts) IN
    /\ IdsLeft(Len(files))
    /\ IF multerError(parts)
         THEN /\ resp' = ErrorMiddlewareResp("uploadMirror", parts)
              /\ Unchanged6
       ELSE IF noFilesUploaded(files)
         THEN /\ resp' = UploadResp("uploadMirror", 400, parts, files, <<>>)
              /\ Unchanged6
       ELSE /\ inflight' = Append(inflight, [parts |-> parts, all |-> files,
                                             files |-> files, results |-> <<>>,
                                             mirrors |-> <<>>])
            /\ resp' = [NoResp EXCEPT !.kind = "mirrorStart", !.req = parts]
            /\ UNCHANGED <<media, mediaCurrentId, disk, assigned, returned,
                           written, deletedIds, users, userCurrentId,
                   uploadSection, cameraCapture>>

\* a loop turn that stores the file locally before it asks the mirror
mirrorFileStoreFirst(st, file, mirror, w) ==
  LET md == mediaDataOf(file)
      one == processFile(st, file, md, w)
  IN IF ~insertMediaSchemaOk(md)
       THEN [st |-> st, result |-> ResultError(file), ids |-> <<>>, recs |-> <<>>,
             bytes |-> <<>>]
     ELSE IF mirror = "reject" THEN [one EXCEPT !.result = ResultError(file)]
     ELSE one

\* one turn of the mirroring loop once the mirror has answered: a rejection
\* (or a failed parse before it) is the file's error entry and nothing else;
\* a URL goes into metadata.cloudinaryUrl and then createMedia runs
mirrorFile(st, file, mirror, w) ==
  LET md == [mediaDataOf(file) EXCEPT !.metadata.cloudinaryUrl = "url"] IN
  IF mirror = "reject" \/ ~insertMediaSchemaOk(md)
    THEN [st |-> st, result |-> ResultError(file), ids |-> <<>>, recs |-> <<>>,
          bytes |-> <<>>]
    ELSE processFile(st, file, md, w)

\* the mirror's callback for the file request k waits on; then the next file
\* goes to the mirror, or the request is answered
MirrorSettle ==
  \E k \in 1..Len(inflight), mirror \in {"resolve", "reject"},
     w \in {"ok", "throw", "partial"} :
    LET rq == inflight[k]
        file == Head(rq.files)
        one == mirrorFile(store, file, mirror, w)
        results == Append(rq.results, one.result)
        mirrors == Append(rq.mirrors, mirror)
        others == SubSeq(inflight, 1, k - 1) \o SubSeq(inflight, k + 1, Len(inflight))
    IN /\ media' = one.st.media
       /\ mediaCurrentId' = one.st.mediaCurrentId
       /\ disk' = one.st.disk
       /\ assigned' = assigned \o one.ids
       /\ returned' = returned \o one.recs
       /\ written' = written \o one.bytes
       /\ UNCHANGED <<deletedIds, users, userCurrentId,
                   uploadSection, cameraCapture>>
       /\ IF Len(rq.files) > 1
            THEN /\ inflight' = [inflight EXCEPT ![k] =
                                   [rq EXCEPT !.files = Tail(rq.files),
                                              !.results = results,
                                              !.mirrors = mirrors]]
                 /\ resp' = [NoResp EXCEPT !.kind = "mirrorStep", !.mirror = mirrors,
                                           !.results = results, !.input = rq.all]
            ELSE /\ inflight' = others
                 /\ resp' = [UploadResp("uploadMirror", uploadStatus(results),
                                        rq.parts, rq.all, results)
                               EXCEPT !.mirror = mirrors]

(* ---------------------------- UploadSection ---------------------------- *)

\* the filter of handleDrop
isMediaFile(part) == part.mimetype.major = "image" \/ part.mimetype.major = "video"

\* what is dropped on the drop zone, and what the file input can hold
DropInputs == {<<PartTxt>>, <<PartImg, PartVid>>, <<PartImg, PartBig>>}
FileInputs == {PartImg, PartTxt}

\* a step of the component alone: no request is answered, the server and
\* the camera stay as they are
OnlyUploadSection ==
  /\ resp' = [NoResp EXCEPT !.kind = "uploadSection"]
  /\ UnchangedServer
  /\ UNCHANGED cameraCapture

\* handleDrop: the image and video files of the drop become the selection;
\* a drop without any is refused with a toast
HandleDrop ==
  \E dropped \in DropInputs :
    LET mediaFiles == SelectSeq(dropped, isMediaFile) IN
    /\ uploadSection' = IF mediaFiles = <<>>
                          THEN [uploadSection EXCEPT !.toast = "invalid"]
                          ELSE [uploadSection EXCEPT !.files = mediaFiles]
    /\ OnlyUploadSection

\* handleFileChange: the first file of the input becomes the selection
HandleFileChange ==
  \E part \in FileInputs :
    /\ uploadSection' = [uploadSection EXCEPT !.files = <<part>>]
    /\ OnlyUploadSection

\* handleUpload up to its await (the button is disabled while isUploading):
\* the empty selection is refused with a toast; otherwise isUploading, the
\* FormData, the progress interval and the fetch
HandleUpload ==
  /\ ~uploadSection.isUploading
  /\ OnlyUploadSection
  /\ IF uploadSection.files = <<>>
       THEN uploadSection' = [uploadSection EXCEPT !.toast = "nofiles"]
       ELSE /\ uploadSection.attempts < MaxAttempts
            /\ uploadSection' =
                 [uploadSection EXCEPT !.isUploading = TRUE, !.interval = TRUE,
                    !.fetch = "pending", !.sent = uploadSection.files,
                    !.answer = [status |-> 0, results |-> <<>>],
                    !.refreshed = FALSE, !.attempts = @ + 1]

\* the updater a progress interval runs on uploadProgress
progressUpdater(prev) == IF prev >= 95 THEN 95 ELSE prev + 5

\* one firing of a progress interval, that of the running handleUpload
\* (own) or one an earlier handleUpload left behind; at 95 or more the
\* interval clears itself
ProgressTick ==
  \E own \in BOOLEAN :
    /\ IF own THEN uploadSection.interval ELSE uploadSection.leaked > 0
    /\ LET prev == uploadSection.uploadProgress
            stops == prev >= 95
        IN uploadSection' =
             [uploadSection EXCEPT
                !.uploadProgress = progressUpdater(prev),
                !.interval = IF own /\ stops THEN FALSE ELSE @,
                !.leaked = IF ~own /\ stops THEN @ - 1 ELSE @]
    /\ OnlyUploadSection

\* handleUpload after the await, fetch resolved: fetch resolves with the
\* answer of the server whatever its status, and the handler does not look
\* at it: clearInterval, 100, the success toast for the files.length of
\* the call, and the reset in 1000 ms
afterFetchResolved(us, answer) ==
  [us EXCEPT !.fetch = "idle", !.interval = FALSE, !.uploadProgress = 100,
             !.toast = "success", !.timeout = TRUE, !.answer = answer]

\* handleUpload's catch, fetch rejected: the failure toast, isUploading
\* false and progress 0; the interval is not cleared
afterFetchRejected(us) ==
  [us EXCEPT !.fetch = "idle", !.toast = "failure", !.isUploading = FALSE,
             !.uploadProgress = 0, !.interval = FALSE,
             !.leaked = IF us.interval THEN @ + 1 ELSE @,
             !.answer = [status |-> -1, results |-> <<>>]]

\* the server handles the request and its answer reaches the component
FetchResolves ==
  /\ uploadSection.fetch = "pending"
  /\ UploadRequest(uploadSection.sent)
  /\ uploadSection' = afterFetchResolved(uploadSection,
                         [status |-> resp'.status, results |-> resp'.results])
  /\ UNCHANGED cameraCapture

\* the request fails on the network, before or after the server handled it
FetchRejects ==
  /\ uploadSection.fetch = "pending"
  /\ uploadSection' = afterFetchRejected(uploadSection)
  /\ UNCHANGED cameraCapture
  /\ \/ resp' = [NoResp EXCEPT !.kind = "fetchRejected"] /\ UnchangedServer
     \/ UploadRequest(uploadSection.sent)

\* the setTimeout callback 1000 ms after the success toast
ResetTimeout ==
  /\ uploadSection.timeout
  /\ uploadSection' = [uploadSection EXCEPT !.timeout = FALSE, !.files = <<>>,
                          !.uploadProgress = 0, !.isUploading = FALSE,
                          !.refreshed = TRUE]
  /\ OnlyUploadSection

\* UploadSection in the browser against the first registerRoutes
NextUploadSection ==
  \/ HandleDrop
  \/ HandleFileChange
  \/ HandleUpload
  \/ ProgressTick
  \/ FetchResolves
  \/ FetchRejects
  \/ ResetTimeout

SpecUploadSection == Init /\ [][NextUploadSection]_vars

(* ---------------------------- CameraCapture ---------------------------- *)

\* a step of the component alone: the server and UploadSection stay as they
\* are
OnlyCameraCapture ==
  /\ resp' = [NoResp EXCEPT !.kind = "cameraCapture"]
  /\ UnchangedServer
  /\ UNCHANGED uploadSection

\* streamRef.current.getTracks().forEach(track => track.stop()) when
\* streamRef.current is set: the streams still running afterwards
stopTracks(cc) == IF cc.streamRef # 0 THEN cc.live \ {cc.streamRef} ELSE cc.live

\* a click on the Start/Stop Camera button, startCamera up to its return or
\* its await: with the camera active the stream is stopped and forgotten;
\* otherwise getUserMedia is called and the handler is suspended
StartCamera ==
  /\ cameraCapture.mounted
  /\ OnlyCameraCapture
  /\ IF cameraCapture.cameraActive
       THEN cameraCapture' = [cameraCapture EXCEPT
                                !.live = stopTracks(cameraCapture),
                                !.streamRef = 0, !.cameraActive = FALSE]
       ELSE /\ cameraCapture.obtained + cameraCapture.pending < MaxStreams
            /\ cameraCapture' = [cameraCapture EXCEPT !.pending = @ + 1]

\* getUserMedia resolves with a new running stream; startCamera keeps it
\* only when the video element is still there
GetUserMediaResolves ==
  /\ cameraCapture.pending > 0
  /\ OnlyCameraCapture
  /\ LET stream == cameraCapture.obtained + 1
         got == [cameraCapture EXCEPT !.pending = @ - 1, !.obtained = stream,
                                      !.live = @ \cup {stream}]
     IN cameraCapture' =
          IF cameraCapture.mounted
            THEN [got EXCEPT !.streamRef = stream, !.cameraActive = TRUE]
            ELSE got

\* getUserMedia rejects: startCamera's catch shows the toast
GetUserMediaRejects ==
  /\ cameraCapture.pending > 0
  /\ OnlyCameraCapture
  /\ cameraCapture' = [cameraCapture EXCEPT !.pending = @ - 1,
                                            !.toast = "cameraError"]

\* toggleMode: an active camera's stream is stopped (streamRef is kept) and
\* the camera shown inactive; the mode flips
ToggleMode ==
  /\ cameraCapture.mounted
  /\ OnlyCameraCapture
  /\ cameraCapture' =
       IF cameraCapture.cameraActive
         THEN [cameraCapture EXCEPT !.live = stopTracks(cameraCapture),
                                    !.cameraActive = FALSE,
                                    !.isVideoMode = ~@]
         ELSE [cameraCapture EXCEPT !.isVideoMode = ~@]

\* the component unmounts: the effect cleanup stops the stream streamRef
\* holds, and the video element is gone
Unmount ==
  /\ cameraCapture.mounted
  /\ OnlyCameraCapture
  /\ cameraCapture' = [cameraCapture EXCEPT !.live = stopTracks(cameraCapture),
                                            !.mounted = FALSE]

\* CameraCapture in the browser
NextCameraCapture ==
  \/ StartCamera
  \/ GetUserMediaResolves
  \/ GetUserMediaRejects
  \/ ToggleMode
  \/ Unmount

SpecCameraCapture == Init /\ [][NextCameraCapture]_vars

\* a file of mediaDir removed behind the server's back, the case the
\* existsSync tests of getMediaFile and deleteMedia are there for
BlobLost ==
  \E p \in DOMAIN disk :
    /\ disk' = unlinkSync(disk, p)
    /\ resp' = [NoResp EXCEPT !.kind = "blobLost"]
    /\ UNCHANGED <<media, mediaCurrentId, inflight, assigned, returned,
                   written, deletedIds, users, userCurrentId,
                   uploadSection, cameraCapture>>

\* requests arriving at the routes of the first registerRoutes
Next ==
  \/ ListMedia
  \/ GetMedia
  \/ DownloadMedia
  \/ ThumbnailMedia
  \/ DeleteMediaRoute
  \/ UploadMedia

Spec == Init /\ [][Next]_vars

\* requests arriving at the second registerRoutes, whose upload mirrors each
\* file before it stores it: the upload, suspended per file, among deletes
\* and reads
NextMirror ==
  \/ GetMedia
  \/ ThumbnailMedia
  \/ DeleteMediaRoute
  \/ UploadMirrorStart
  \/ MirrorSettle

SpecMirror == Init /\ [][NextMirror]_vars

\* the upload and delete requests of both registerRoutes
NextUpload ==
  \/ UploadMedia
  \/ UploadMirrorStart
  \/ MirrorSettle
  \/ DeleteMediaRoute

SpecUpload == Init /\ [][NextUpload]_vars

\* MemStorage called directly and through the upload and get routes
NextRoundTrip ==
  \/ CallCreateMedia
  \/ CallGetMediaFile
  \/ UploadMedia
  \/ GetMedia

SpecRoundTrip == Init /\ [][NextRoundTrip]_vars

\* uploads and reads of the first registerRoutes over a blob directory that
\* can lose files
NextLost ==
  \/ UploadMedia
  \/ GetMedia
  \/ DownloadMedia
  \/ ThumbnailMedia
  \/ BlobLost

SpecLost == Init /\ [][NextLost]_vars

(* ======================= claims on MemStorage ========================== *)

\* C1: across createMedia and deleteMedia calls, every createMedia takes an
\* id strictly greater than every id taken by an earlier createMedia, also
\* when the earlier record was deleted or its blob write failed
C1_IdsStrictlyIncreasing ==
  \A i, j \in 1..Len(assigned) : i < j => assigned[i] < assigned[j]

\* a second id was handed out after the first record was deleted
C1_Witness ==
  /\ Len(assigned) >= 2
  /\ 1 \in deletedIds
  /\ resp.kind = "createMedia" /\ resp.ok

\* C2 (as claimed): every record in the registry has a blob on disk at the
\* path the code derives from {id}_{fileName}
C2_EveryRecordHasBlob ==
  \A i \in 1..Len(media) : filePath(media[i].id, media[i].fileName) \in DOMAIN disk

\* C3: a createMedia whose blob write fails throws and leaves the registry
\* map as it was, and no record is ever in the registry that a createMedia
\* did not return
C3_FailedWriteRegistersNothing ==
  /\ [][(resp'.kind = "createMedia" /\ resp'.threw) =>
          (media' = media /\ resp'.rec = <<>> /\ resp'.id \notin idsOf(media'))]_vars
  /\ [](\A i \in 1..Len(media) : \E j \in 1..Len(returned) : media[i] = returned[j])

\* a createMedia failed while the registry held a record
C3_Witness == resp.kind = "createMedia" /\ resp.threw /\ Len(media) >= 1

C9_ListIsLiveRecordsInCreationOrder ==
  /\ getAllMedia(store) = SelectSeq(returned, LAMBDA r : r.id \notin deletedIds)
  /\ \A i, j \in 1..Len(getAllMedia(store)) :
       i < j => getAllMedia(store)[i].id < getAllMedia(store)[j].id

\* two records were created, the first was deleted, and the list was read
C9_Witness ==
  /\ Len(returned) = 2
  /\ deletedIds = {1}
  /\ resp.kind = "getAllMedia" /\ Len(resp.list) = 1

(* ========================= claims on the routes ======================== *)

RouteKinds == {"get", "download", "thumbnail", "delete"}

C6_UnknownIdIs404 ==
  (resp.kind \in {"get", "download", "thumbnail"} /\ ~resp.nan
     /\ resp.id \notin idsOf(media)) => resp.status = 404

\* the thumbnail of a record that was created and then deleted was asked for
C6_Witness ==
  resp.kind = "thumbnail" /\ resp.id \in deletedIds /\ resp.status = 404

\* C7 (as claimed): a request whose id segment is not a numeric string is
\* answered 400 and nothing is read, served or deleted
C7_NonNumericIs400 ==
  [][(resp'.kind \in RouteKinds /\ ~resp'.numeric) =>
       (resp'.status = 400 /\ resp'.body = <<>> /\ media' = media /\ disk' = disk)]_vars

\* C8: getMediaFile(i) right after a successful createMedia(m, b) that
\* returned id i yields, when the read does not fail, the bytes b and a record
\* equal to m in every field with the id i added; and GET /api/media/:id right
\* after an upload answers, for each id of a success entry, the uploaded bytes
C8_RoundTrip ==
  [][/\ (resp.kind = "createMedia" /\ resp.ok /\ resp'.kind = "getMediaFile"
           /\ resp'.id = resp.id /\ ~resp'.threw) =>
          /\ resp'.ok
          /\ resp'.data = resp.bytes
          /\ DOMAIN resp'.rec[1] = DOMAIN resp.input[1] \cup {"id"}
          /\ resp'.rec[1].id = resp.id
          /\ \A f \in DOMAIN resp.input[1] : resp'.rec[1][f] = resp.input[1][f]
     /\ (resp.kind = "upload" /\ resp.status = 201 /\ resp'.kind = "get"
           /\ ~resp'.nan /\ ~resp'.threw) =>
          \A k \in 1..Len(resp.results) :
            (resp.results[k].status = "success" /\ resp.results[k].id = resp'.id) =>
              (resp'.status = 200 /\ resp'.body = <<resp.bytes[k]>>)]_vars

\* the second record of the registry was read back right after its creation
C8_Witness ==
  /\ resp.kind = "getMediaFile" /\ resp.ok /\ resp.id = 2
  /\ Len(media) = 2

\* C10: an upload request that reaches the handler with at least one file is
\* answered 201 whatever happened to the files, in both upload variants
C10_BatchAnswered201 ==
  (resp.kind \in {"upload", "uploadMirror"} /\ resp.reached /\ resp.nfiles >= 1)
    => resp.status = 201

\* a mirrored batch of two files, both failed, was answered
C10_Witness ==
  /\ resp.kind = "uploadMirror" /\ resp.nfiles = 2 /\ resp.status = 201
  /\ \A k \in 1..Len(resp.results) : resp.results[k].status = "error"

(* ====================== claims on the upload batch ===================== *)

\* the indices of the success entries of a results array
successes(results) == {k \in 1..Len(results) : results[k].status = "success"}

\* C11: an upload answered with a results array has one entry per accepted
\* file, in input order, each success or error; the success entries carry
\* pairwise different ids of records newly in the registry that were made
\* from their own file, entry k is success exactly when the write of file k
\* succeeded, whatever happened to the files before it, and the registry
\* grows by exactly the number of success entries
C11_ResultsDescribeBatch ==
  [][(resp'.kind = "upload" /\ resp'.status = 201) =>
       LET files == resp'.input
           res == resp'.results
           new == idsOf(media') \ idsOf(media)
       IN /\ Len(res) = Len(files)
          /\ \A k \in 1..Len(res) :
               /\ res[k].fileName = files[k].originalname
               /\ res[k].status \in {"success", "error"}
               /\ res[k].status = "success" <=> resp'.ws[k] = "ok"
               /\ res[k].status = "success" =>
                    /\ res[k].id \in new
                    /\ recOf(media', res[k].id).fileName = files[k].originalname
                    /\ recOf(media', res[k].id).fileType = files[k].mimetype
          /\ \A k1, k2 \in successes(res) : k1 # k2 => res[k1].id # res[k2].id
          /\ Cardinality(new) = Cardinality(successes(res))
          /\ Len(media') = Len(media) + Cardinality(successes(res))]_vars

\* a batch of two whose first file failed and whose second was registered
C11_Witness ==
  /\ resp.kind = "upload" /\ resp.status = 201
  /\ Len(resp.results) = 2
  /\ resp.results[1].status = "error"
  /\ resp.results[2].status = "success"
  /\ resp.results[2].id \in idsOf(media)

\* a part whose declared MIME type starts with image/ or video/
AcceptedType(part) == part.mimetype.major \in {"image", "video"}

\* C12: an upload request none of whose parts has an image/ or video/ type
\* (no part at all included) is answered 400 and leaves the registry, the
\* blobs on disk and the id counter as they were
C12_NoAcceptedFileIs400 ==
  [][(resp'.kind = "upload" /\
        \A i \in 1..Len(resp'.req) : ~AcceptedType(resp'.req[i])) =>
       /\ resp'.status = 400
       /\ resp'.results = <<>>
       /\ media' = media
       /\ disk' = disk
       /\ mediaCurrentId' = mediaCurrentId]_vars

\* a request whose only part is dropped by the filter, answered 400 while
\* the registry holds a record
C12_Witness ==
  /\ resp.kind = "upload" /\ resp.status = 400
  /\ Len(resp.req) = 1 /\ ~AcceptedType(resp.req[1])
  /\ Len(media) = 1 /\ mediaCurrentId = 2

\* C13: every record in the registry has a fileType that starts with image/
\* or video/; and an upload that reaches the handler acts on the parts with
\* such a type only: the results array has one entry per such part, in
\* order, at most one blob per such part is new on disk, and answer,
\* registry, disk and id counter are those of the same request with the
\* other parts left out
C13_DroppedPartsLeaveNoTrace ==
  /\ [](\A i \in 1..Len(media) : media[i].fileType.major \in {"image", "video"})
  /\ [][(resp'.kind = "upload" /\ resp'.reached) =>
          LET kept == SelectSeq(resp'.req, AcceptedType)
              files == multerFiles(kept)
              l == uploadLoop(store, files, resp'.ws)
          IN /\ Len(resp'.results) = Len(kept)
             /\ \A k \in 1..Len(kept) :
                  resp'.results[k].fileName = basename(kept[k].filename)
             /\ Cardinality(DOMAIN disk' \ DOMAIN disk) <= Len(kept)
             /\ IF kept = <<>>
                  THEN /\ resp'.status = 400
                       /\ <<media', disk', mediaCurrentId'>> = <<media, disk, mediaCurrentId>>
                  ELSE /\ resp'.status = 201
                       /\ resp'.results = l.results
                       /\ <<media', disk', mediaCurrentId'>> =
                            <<l.st.media, l.st.disk, l.st.mediaCurrentId>>]_vars

\* a mixed batch: the text part is dropped, the video after it is registered
C13_Witness ==
  /\ resp.kind = "upload" /\ resp.status = 201
  /\ Len(resp.req) = 2
  /\ ~AcceptedType(resp.req[1]) /\ AcceptedType(resp.req[2])
  /\ Len(resp.results) = 1 /\ resp.results[1].status = "success"
  /\ recOf(media, resp.results[1].id).fileType = resp.req[2].mimetype

(* ===================== claims on the read endpoints ==================== *)

\* the path segments that the routes parse to id
SegsOf(id) == {seg \in SegInputs : ~parseInt(seg).nan /\ parseInt(seg).val = id}

\* the store with every blob gone
diskless == [store EXCEPT !.disk = << >>]

\* C14: for every registered record whose fileType starts with video/, the
\* thumbnail endpoint answers 200 with Content-Type image/svg+xml and the
\* placeholder that carries the record's fileName, the same answer under
\* every read outcome and with every blob gone (it does not read the blob);
\* a thumbnail request changes neither registry, disk nor id counter
C14_VideoThumbnailIsPlaceholder ==
  /\ [](\A i \in 1..Len(media) : media[i].fileType.major = "video" =>
          \A seg \in SegsOf(media[i].id), r \in {"ok", "throw"} :
            LET t == routeThumbnail(store, seg, r) IN
            /\ t.status = 200
            /\ t.ctype = <<ImageSvg>>
            /\ t.body[1][3] = media[i].fileName
            /\ t = routeThumbnail(store, seg, "ok")
            /\ t = routeThumbnail(diskless, seg, r))
  /\ [](resp.kind = "thumbnail" /\ resp.rec # <<>> =>
          (resp.rec[1].fileType.major = "video" =>
             /\ resp.status = 200
             /\ resp.ctype = <<ImageSvg>>
             /\ resp.body[1][3] = resp.rec[1].fileName))
  /\ [][resp'.kind = "thumbnail" =>
          UNCHANGED <<media, mediaCurrentId, disk, inflight>>]_vars

\* the thumbnail of a registered video record was answered
C14_Witness ==
  /\ resp.kind = "thumbnail" /\ resp.status = 200
  /\ resp.ctype = <<ImageSvg>>
  /\ resp.rec # <<>> /\ resp.rec[1].fileType.major = "video"
  /\ resp.rec[1].id \in idsOf(media)

\* C15: for every registered record whose fileType does not start with
\* video/, the thumbnail endpoint and the get endpoint, asked for it in the
\* same state and under the same read outcome, answer with the same status
\* and Content-Type, and with the same body when the status is 200
C15_ThumbnailEqualsGetForImages ==
  \A i \in 1..Len(media) : media[i].fileType.major # "video" =>
    \A seg \in SegsOf(media[i].id), r \in {"ok", "throw"} :
      LET t == routeThumbnail(store, seg, r)
          g == routeGet(store, seg, r)
      IN /\ t.status = g.status
         /\ t.ctype = g.ctype
         /\ t.status = 200 => t.body = g.body

\* the thumbnail of a registered image record was answered with its bytes
C15_Witness ==
  /\ resp.kind = "thumbnail" /\ resp.status = 200
  /\ resp.rec # <<>> /\ resp.rec[1].fileType.major = "image"
  /\ resp.rec[1].id \in idsOf(media)
  /\ resp = [routeGet(store, <<"1">>, "ok") EXCEPT !.kind = "thumbnail"]

\* the registered records whose blob is not on disk
blobless == {i \in 1..Len(media) :
               filePath(media[i].id, media[i].fileName) \notin DOMAIN disk}

\* C16 as stated: whenever a record is registered and its blob is not on
\* disk, get, download and thumbnail for its id all answer 404 or 500
C16_MissingBlobNever200 ==
  \A i \in blobless :
    \A seg \in SegsOf(media[i].id), r \in {"ok", "throw"} :
      /\ routeGet(store, seg, r).status \in {404, 500}
      /\ routeDownload(store, seg, r).status \in {404, 500}
      /\ routeThumbnail(store, seg, r).status \in {404, 500}

\* C16, amended: whenever a record is registered and its blob is not on
\* disk, get and download for its id answer 404, and so does thumbnail when
\* the record's fileType does not start with video/; the thumbnail of a
\* video record still answers 200 with the SVG placeholder
C16_MissingBlob404ExceptVideoThumbnail ==
  /\ \A i \in blobless :
       \A seg \in SegsOf(media[i].id), r \in {"ok", "throw"} :
         /\ routeGet(store, seg, r).status = 404
         /\ routeDownload(store, seg, r).status = 404
         /\ LET t == routeThumbnail(store, seg, r) IN
            IF media[i].fileType.major = "video"
              THEN t.status = 200 /\ t.ctype = <<ImageSvg>>
              ELSE t.status = 404
  /\ (resp.kind \in {"get", "download", "thumbnail"} /\ ~resp.nan
        /\ \E i \in blobless : media[i].id = resp.id) =>
       IF resp.kind = "thumbnail" /\ recOf(media, resp.id).fileType.major = "video"
         THEN resp.status = 200
         ELSE resp.status = 404

\* a get for a registered image record whose blob is gone was answered 404
C16_Witness ==
  /\ resp.kind = "get" /\ resp.status = 404
  /\ \E i \in blobless : media[i].id = resp.id /\ media[i].fileType.major = "image"
  /\ \E i \in blobless : media[i].fileType.major = "video"

(* ================== claims on the mirroring pipeline =================== *)

\* C17: with mirroring uploads suspended at the mirror await and resumed in
\* any order, between each other and other requests: no two records ever
\* registered have the same id; the success entries of an answered request
\* carry pairwise different ids of records made from the request's own
\* files (name, type and bytes of the file at the entry's position); and
\* the blob of every record is, as long as it is on disk, the bytes written
\* for that record, and is on disk while the record is registered
C17_ConcurrentUploadsKeepIdsAndBlobsApart ==
  /\ \A i, j \in 1..Len(returned) : i # j => returned[i].id # returned[j].id
  /\ \A i, j \in 1..Len(media) : i # j => media[i].id # media[j].id
  /\ (resp.kind = "uploadMirror" /\ resp.status = 201) =>
       /\ \A k \in successes(resp.results) :
            \E j \in 1..Len(returned) :
              /\ returned[j].id = resp.results[k].id
              /\ returned[j].fileName = resp.input[k].originalname
              /\ returned[j].fileType = resp.input[k].mimetype
              /\ written[j] = resp.input[k].buffer
       /\ \A k1, k2 \in successes(resp.results) :
            k1 # k2 => resp.results[k1].id # resp.results[k2].id
  /\ \A j \in 1..Len(returned) :
       LET p == filePath(returned[j].id, returned[j].fileName) IN
       /\ p \in DOMAIN disk => disk[p] = written[j]
       /\ returned[j].id \in idsOf(media) => p \in DOMAIN disk

\* a request was answered with a file it registered while another request
\* is suspended at the mirror
C17_Witness ==
  /\ resp.kind = "uploadMirror" /\ resp.status = 201
  /\ successes(resp.results) # {}
  /\ Len(inflight) >= 1
  /\ \E j \in 1..Len(returned) :
       returned[j].id = resp.results[1].id /\ returned[j].id \in idsOf(media)

\* the last element of a non-empty sequence
Last(q) == q[Len(q)]

\* C18: in the mirroring upload, a step in which the mirror rejects a file
\* appends an error entry for that file and leaves registry, disk and id
\* counter as they were; an answered request has an entry for every file,
\* those after a rejected one included, and the entry of every rejected
\* file is error; and every record in the registry carries the mirror URL
\* in its metadata, as does every success entry
C18_MirrorFailureStoresNothing ==
  /\ [][(resp'.kind \in {"mirrorStep", "uploadMirror"} /\ resp'.mirror # <<>>
           /\ Last(resp'.mirror) = "reject") =>
          /\ <<media', disk', mediaCurrentId'>> = <<media, disk, mediaCurrentId>>
          /\ Len(resp'.results) = Len(resp'.mirror)
          /\ Last(resp'.results).status = "error"
          /\ Last(resp'.results).fileName =
               resp'.input[Len(resp'.results)].originalname]_vars
  /\ []((resp.kind = "uploadMirror" /\ resp.status = 201) =>
          /\ Len(resp.results) = Len(resp.input)
          /\ Len(resp.mirror) = Len(resp.input)
          /\ \A k \in 1..Len(resp.results) :
               /\ resp.mirror[k] = "reject" => resp.results[k].status = "error"
               /\ resp.results[k].status = "success" =>
                    resp.results[k].cloudinaryUrl = "url")
  /\ [](\A i \in 1..Len(media) : media[i].metadata.cloudinaryUrl = "url")

\* a batch of two answered: the mirror rejected the first file, the second
\* was mirrored and registered under the first id
C18_Witness ==
  /\ resp.kind = "uploadMirror" /\ resp.status = 201
  /\ resp.mirror = <<"reject", "resolve">>
  /\ resp.results[1].status = "error"
  /\ resp.results[2].status = "success" /\ resp.results[2].id = 1
  /\ Len(media) = 1 /\ media[1].metadata.cloudinaryUrl = "url"

(* ===================== claims on the user registry ===================== *)

\* C19: after any sequence of createUser calls no two user records in the
\* registry have the same username, so that getUserByUsername(u) stands for
\* at most one record
C19_UsernamesUnique ==
  \A i, j \in 1..Len(users) : i # j => users[i].username # users[j].username

(* ========================= claims on deletion ========================== *)

\* C20: a DELETE answered 200 was for a registered record and leaves it out
\* of the registry with its blob off the disk; and in every state after
\* that, the record is absent from the list and from getMediaById, its blob
\* `${id}_${fileName}` is not on disk, and get, download and thumbnail for
\* its id answer 404 under every read outcome
C20_DeletedStaysGone ==
  /\ [][(resp'.kind = "delete" /\ resp'.status = 200) =>
          /\ resp'.id \in idsOf(media)
          /\ resp'.id \notin idsOf(media')
          /\ resp'.id \in deletedIds'
          /\ filePath(resp'.id, recOf(media, resp'.id).fileName) \notin DOMAIN disk']_vars
  /\ [](\A j \in 1..Len(returned) : returned[j].id \in deletedIds =>
          LET id == returned[j].id IN
          /\ \A i \in 1..Len(getAllMedia(store)) : getAllMedia(store)[i].id # id
          /\ getMediaById(store, id) = <<>>
          /\ filePath(id, returned[j].fileName) \notin DOMAIN disk
          /\ \A seg \in SegsOf(id), r \in {"ok", "throw"} :
               /\ routeGet(store, seg, r).status = 404
               /\ routeDownload(store, seg, r).status = 404
               /\ routeThumbnail(store, seg, r).status = 404)

\* a get for a deleted id was answered 404 after a later upload registered
\* another record
C20_Witness ==
  /\ resp.kind = "get" /\ resp.status = 404 /\ ~resp.nan
  /\ resp.id \in deletedIds
  /\ Len(media) = 1 /\ media[1].id > resp.id

(* ========================= claims on the frame ========================= *)

\* C21: a list, get, download or thumbnail request, and every request that
\* a handler answers 400 or 404 (a DELETE of an unknown id and a DELETE
\* whose unlink failed included), leaves the registry, the id counter and
\* the blobs on disk, names and bytes, as they were
C21_ReadsAndRefusalsChangeNothing ==
  [][(\/ resp'.kind \in {"list", "get", "download", "thumbnail"}
      \/ resp'.reached /\ resp'.status \in {400, 404}) =>
       /\ media' = media
       /\ mediaCurrentId' = mediaCurrentId
       /\ disk' = disk]_vars

\* a DELETE of an id that is not registered was answered 404 while the
\* registry holds a record
C21_Witness ==
  /\ resp.kind = "delete" /\ resp.status = 404 /\ ~resp.nan
  /\ resp.id \notin idsOf(media)
  /\ Len(media) = 1 /\ DOMAIN disk # {}

\* C22: every record createMedia returned is, as long as it is registered,
\* in the registry with the fields it was returned with and has on disk the
\* bytes written for it, whatever createMedia and deleteMedia did on other
\* ids since; and no two registered records have the same blob path
C22_LiveRecordAndBlobUnchanged ==
  /\ \A j \in 1..Len(returned) : returned[j].id \in idsOf(media) =>
       LET p == filePath(returned[j].id, returned[j].fileName) IN
       /\ recOf(media, returned[j].id) = returned[j]
       /\ p \in DOMAIN disk
       /\ disk[p] = written[j]
  /\ \A i, j \in 1..Len(media) : i # j =>
       filePath(media[i].id, media[i].fileName) #
         filePath(media[j].id, media[j].fileName)

(* ==================== claims on the UploadSection ====================== *)

\* C23: whenever the last toast is "Upload successful" (and whenever the
\* gallery was refreshed after an upload), the request of that handleUpload
\* was answered 201 with one results entry per selected file, all success
C23_SuccessToastOnlyWhenStored ==
  (uploadSection.toast = "success" \/ uploadSection.refreshed) =>
    /\ uploadSection.answer.status = 201
    /\ Len(uploadSection.answer.results) = Len(uploadSection.sent)
    /\ \A k \in 1..Len(uploadSection.answer.results) :
         uploadSection.answer.results[k].status = "success"

\* C24: uploadProgress is within 0..95 while the request is in flight and
\* is 100 only after the request resolved; and whenever no upload is going
\* on (isUploading false) uploadProgress is 0 and no progress interval is
\* running
C24_ProgressEndsWithTheAttempt ==
  /\ uploadSection.fetch = "pending" =>
       uploadSection.uploadProgress \in 0..95
  /\ uploadSection.uploadProgress = 100 => uploadSection.answer.status > 0
  /\ ~uploadSection.isUploading =>
       /\ uploadSection.uploadProgress = 0
       /\ ~uploadSection.interval
       /\ uploadSection.leaked = 0

(* ==================== claims on the CameraCapture ====================== *)

\* C25: no stream runs once the component has unmounted, none runs while
\* the camera is shown inactive, and while the component is mounted
\* cameraActive is true exactly when streamRef holds a running stream
C25_NoStreamOutlivesTheCamera ==
  /\ ~cameraCapture.mounted => cameraCapture.live = {}
  /\ ~cameraCapture.cameraActive => cameraCapture.live = {}
  /\ cameraCapture.mounted =>
       (cameraCapture.cameraActive <=>
          (cameraCapture.streamRef # 0 /\ cameraCapture.streamRef \in cameraCapture.live))
====
